---- MODULE Spec2Model ----
(***************************************************************************)
(* Model of the tracker of AkashXII/PBL: the in-memory Registry of peers   *)
(* and jobs (backend/app/registry.py) behind its HTTP endpoints            *)
(* (backend/app/main.py), with the request shapes of backend/app/schemas.py *)
(*                                                                         *)
(* Optional[...] values are sequences: <<>> is None, <<v>> is the value v. *)
(* A dict is the sequence of its values in insertion order, each value     *)
(* carrying its key in the field id.  uuid4() is the counter uuid: the     *)
(* n-th draw returns n.  Time is in whole seconds.                         *)
(***************************************************************************)
EXTENDS Integers, Sequences, FiniteSets

VARIABLES
    peers,      \* Registry.peers : Dict[str, Peer]
    jobs,       \* Registry.jobs  : Dict[str, Job]
    uuid,       \* number of uuid4() draws made so far
    now,        \* the wall clock, datetime.now(timezone.utc)
    served,     \* number of requests served so far
    last,       \* the last request answered: endpoint, arguments, HTTP reply
    threads     \* the worker threads: the handler each runs, its position and locals

vars == <<peers, jobs, uuid, now, served, last, threads>>

\* ------------------------------------------------------------ bounds
MaxPeers == 2
MaxJobs == 2
MaxTime == 31
MaxRequests == 4
MaxThreadRequests == 3

\* ------------------------------------------------------------ constants
LivenessTimeout == 30
LoadMin == 0
LoadMax == 100

None == <<>>
Some(v) == <<v>>
IsNone(o) == o = <<>>

\* Python's `o or 0` on an Optional[int]: None and 0 are falsy.
OrZero(o) == IF IsNone(o) THEN 0 ELSE IF o[1] = 0 THEN 0 ELSE o[1]

\* ------------------------------------------------------------ schemas
QUEUED == "QUEUED"
ASSIGNED == "ASSIGNED"
RUNNING == "RUNNING"
COMPLETED == "COMPLETED"
FAILED == "FAILED"
JobStatus == {QUEUED, ASSIGNED, RUNNING, COMPLETED, FAILED}

ModelInfo(n) == [name |-> n, version |-> None, framework |-> Some("pytorch")]

ModelNames == {"resnet50", "bert-large"}

\* The registration payloads the requests are drawn from.
Registration(gpu, free, models) ==
    [name |-> "GPU-Worker-1", host |-> "localhost", port |-> 9001,
     has_gpu |-> gpu,
     gpu_memory_total_mb |-> Some(8000),
     gpu_memory_free_mb |-> free,
     models |-> models]

PeerRegisterRequest ==
    { Registration(TRUE, Some(4096), <<ModelInfo("resnet50")>>),
      Registration(TRUE, Some(6000), <<ModelInfo("vgg16"), ModelInfo("resnet50")>>),
      Registration(TRUE, None, <<ModelInfo("resnet50")>>),
      Registration(FALSE, Some(6000), <<ModelInfo("resnet50")>>) }

\* The heartbeat payloads the requests are drawn from, valid or not.
PeerHeartbeatRequest(free, load) ==
    [gpu_memory_free_mb |-> free, current_load_percent |-> load]

HeartbeatPayload ==
    { PeerHeartbeatRequest(None, None),
      PeerHeartbeatRequest(Some(0), None),
      PeerHeartbeatRequest(None, Some(10)),
      PeerHeartbeatRequest(Some(6000), Some(10)),
      PeerHeartbeatRequest(None, Some(101)),
      PeerHeartbeatRequest(None, Some(-1)) }

\* PeerHeartbeatRequestValid with the upper bound lost
PeerHeartbeatRequestNoMax(data) ==
    \/ IsNone(data.current_load_percent)
    \/ data.current_load_percent[1] >= LoadMin

\* Field(None, ge=0, le=100) on current_load_percent.
PeerHeartbeatRequestValid(data) ==
    \/ IsNone(data.current_load_percent)
    \/ /\ data.current_load_percent[1] >= LoadMin
       /\ data.current_load_percent[1] <= LoadMax

\* The status reports the requests are drawn from.
JobUpdateStatusRequest ==
    [status : JobStatus, result_url : {None}, error_message : {None}]
    \cup { [status |-> COMPLETED, result_url |-> Some("ok"), error_message |-> None],
           [status |-> FAILED, result_url |-> None, error_message |-> Some("boom")] }

\* ------------------------------------------------------------ dicts
Keys(d) == {d[i].id : i \in 1..Len(d)}
Get(d, k) == d[CHOOSE i \in 1..Len(d) : d[i].id = k]
\* d[k] = v : overwrite in place when k is present, else insert at the end.
Put(d, k, v) ==
    IF k \in Keys(d)
    THEN [i \in 1..Len(d) |-> IF d[i].id = k THEN v ELSE d[i]]
    ELSE Append(d, v)

\* ------------------------------------------------------------ records
Peer(peer_id, data, t) ==
    [id |-> peer_id,
     name |-> data.name,
     host |-> data.host,
     port |-> data.port,
     has_gpu |-> data.has_gpu,
     gpu_memory_total_mb |-> data.gpu_memory_total_mb,
     gpu_memory_free_mb |-> data.gpu_memory_free_mb,
     models |-> data.models,
     current_load_percent |-> 0,
     last_heartbeat |-> t,
     is_online |-> TRUE]

PeerResponse(p) ==
    [id |-> p.id, name |-> p.name, host |-> p.host, port |-> p.port,
     has_gpu |-> p.has_gpu,
     gpu_memory_total_mb |-> p.gpu_memory_total_mb,
     gpu_memory_free_mb |-> p.gpu_memory_free_mb,
     models |-> p.models,
     is_online |-> p.is_online]

Job(job_id, data, t) ==
    [id |-> job_id,
     requester_peer_id |-> data.requester_peer_id,
     assigned_peer_id |-> None,
     model_name |-> data.model_name,
     payload_url |-> data.payload_url,
     status |-> QUEUED,
     result_url |-> None,
     error_message |-> None,
     created_at |-> t,
     updated_at |-> t]

JobResponse(j) ==
    [id |-> j.id,
     requester_peer_id |-> j.requester_peer_id,
     assigned_peer_id |-> j.assigned_peer_id,
     model_name |-> j.model_name,
     status |-> j.status,
     payload_url |-> j.payload_url,
     result_url |-> j.result_url]

\* The reply of an endpoint, as kept in `last`.
Reply(op, key, req, code, body) ==
    [op |-> op, key |-> key, req |-> req, code |-> code, body |-> body]

\* ------------------------------------------------------------ threads
\* The endpoints are plain `def` functions: the server runs each request on a
\* worker thread, and the threads interleave between the accesses to the registry.
Workers == {1, 2}

Idle ==
    [pc |-> "idle", op |-> "", key |-> 0, req |-> <<>>, t |-> 0, i |-> 0, n |-> 0,
     acc |-> <<>>, job |-> <<>>, peer |-> <<>>]

\* ------------------------------------------------------------ Registry
\* one more request is served
Serve ==
    /\ served < MaxRequests
    /\ served' = served + 1

Init ==
    /\ peers = <<>>
    /\ jobs = <<>>
    /\ uuid = 0
    /\ now = 0
    /\ served = 0
    /\ last = Reply("init", 0, <<>>, 200, <<>>)
    /\ threads = [w \in Workers |-> Idle]

\* register_peer that keys the directory by the port the peer announces
register_peer_by_port(data) ==
    /\ Serve
    /\ Len(peers) < MaxPeers
    /\ LET peer_id == data.port
           peer == Peer(peer_id, data, now)
       IN /\ uuid' = uuid + 1
          /\ peers' = Put(peers, peer_id, peer)
          /\ last' = Reply("register_peer", peer_id, <<data>>, 200,
                           <<PeerResponse(peer)>>)
    /\ UNCHANGED <<jobs, now, threads>>

\* POST /peers/register
register_peer(data) ==
    /\ Serve
    /\ Len(peers) < MaxPeers
    /\ LET peer_id == uuid + 1
           peer == Peer(peer_id, data, now)
       IN /\ uuid' = peer_id
          /\ peers' = Put(peers, peer_id, peer)
          /\ last' = Reply("register_peer", peer_id, <<data>>, 200,
                           <<PeerResponse(peer)>>)
    /\ UNCHANGED <<jobs, now, threads>>

\* Heartbeaten that refreshes the time and leaves the flag as it was
HeartbeatenNoRevive(peer, data, t) ==
    LET p1 == IF ~IsNone(data.gpu_memory_free_mb)
              THEN [peer EXCEPT !.gpu_memory_free_mb = data.gpu_memory_free_mb]
              ELSE peer
        p2 == IF ~IsNone(data.current_load_percent)
              THEN [p1 EXCEPT !.current_load_percent = data.current_load_percent[1]]
              ELSE p1
    IN [p2 EXCEPT !.last_heartbeat = t]

\* Heartbeaten that tests the fields for truth, not for presence
HeartbeatenTruthy(peer, data, t) ==
    LET p1 == IF OrZero(data.gpu_memory_free_mb) # 0
              THEN [peer EXCEPT !.gpu_memory_free_mb = data.gpu_memory_free_mb]
              ELSE peer
        p2 == IF OrZero(data.current_load_percent) # 0
              THEN [p1 EXCEPT !.current_load_percent = data.current_load_percent[1]]
              ELSE p1
    IN [p2 EXCEPT !.last_heartbeat = t, !.is_online = TRUE]

\* Registry.heartbeat, once the peer is found: the peer it leaves
Heartbeaten(peer, data, t) ==
    LET p1 == IF ~IsNone(data.gpu_memory_free_mb)
              THEN [peer EXCEPT !.gpu_memory_free_mb = data.gpu_memory_free_mb]
              ELSE peer
        p2 == IF ~IsNone(data.current_load_percent)
              THEN [p1 EXCEPT !.current_load_percent = data.current_load_percent[1]]
              ELSE p1
    IN [p2 EXCEPT !.last_heartbeat = t, !.is_online = TRUE]

\* POST /peers/{peer_id}/heartbeat
heartbeat(peer_id, data) ==
    /\ Serve
    /\ IF ~PeerHeartbeatRequestValid(data)
       THEN /\ last' = Reply("heartbeat", peer_id, <<data>>, 422, <<>>)
            /\ UNCHANGED peers
       ELSE IF peer_id \notin Keys(peers)
       THEN /\ last' = Reply("heartbeat", peer_id, <<data>>, 404, <<>>)
            /\ UNCHANGED peers
       ELSE LET peer == Heartbeaten(Get(peers, peer_id), data, now)
            IN /\ peers' = Put(peers, peer_id, peer)
               /\ last' = Reply("heartbeat", peer_id, <<data>>, 200,
                                <<PeerResponse(peer)>>)
    /\ UNCHANGED <<jobs, uuid, now, threads>>

\* MarkOffline with >= for >
MarkOfflineAtTimeout(ps, t) ==
    [i \in 1..Len(ps) |->
        IF t - ps[i].last_heartbeat >= LivenessTimeout
        THEN [ps[i] EXCEPT !.is_online = FALSE]
        ELSE ps[i]]

\* Mark peers offline if no heartbeat for > 30s.
MarkOffline(ps, t) ==
    [i \in 1..Len(ps) |->
        IF t - ps[i].last_heartbeat > LivenessTimeout
        THEN [ps[i] EXCEPT !.is_online = FALSE]
        ELSE ps[i]]

OnlineOnly(p) == p.is_online

Responses(ps) == [i \in 1..Len(ps) |-> PeerResponse(ps[i])]

\* GET /peers?only_online=
list_peers(only_online) ==
    /\ Serve
    /\ peers' = MarkOffline(peers, now)
    /\ last' = Reply("list_peers", 0, <<only_online>>, 200,
                     IF only_online
                     THEN Responses(SelectSeq(peers', OnlineOnly))
                     ELSE Responses(peers'))
    /\ UNCHANGED <<jobs, uuid, now, threads>>

\* the sort key of _select_peer_for_model
SortKey(p) == <<-(OrZero(p.gpu_memory_free_mb)), p.current_load_percent>>

\* KeyLess with the tie-break on the load lost
KeyLessFreeOnly(a, b) == a[1] < b[1]

\* Python's tuple comparison a < b
KeyLess(a, b) == a[1] < b[1] \/ (a[1] = b[1] /\ a[2] < b[2])

\* Insert that places x in front of the elements whose key equals its own
InsertBeforeEqual(x, s) ==
    LET behind == {i \in 1..Len(s) : KeyLess(SortKey(s[i]), SortKey(x))}
        n == IF behind = {} THEN 0 ELSE CHOOSE i \in behind : \A j \in behind : j <= i
    IN SubSeq(s, 1, n) \o <<x>> \o SubSeq(s, n + 1, Len(s))

\* x placed behind every element whose key is not greater than its own
Insert(x, s) ==
    LET behind == {i \in 1..Len(s) : ~KeyLess(SortKey(x), SortKey(s[i]))}
        n == IF behind = {} THEN 0 ELSE CHOOSE i \in behind : \A j \in behind : j <= i
    IN SubSeq(s, 1, n) \o <<x>> \o SubSeq(s, n + 1, Len(s))

\* list.sort(key=...): the stable sort
RECURSIVE Sort(_)
Sort(s) ==
    IF s = <<>> THEN <<>>
    ELSE Insert(s[Len(s)], Sort(SubSeq(s, 1, Len(s) - 1)))

HasModel(p, model_name) ==
    \E i \in 1..Len(p.models) : p.models[i].name = model_name

\* Eligible with the GPU test lost
EligibleAnyHardware(p, model_name) ==
    p.is_online /\ HasModel(p, model_name)

\* the test a peer passes to become a candidate
Eligible(p, model_name) ==
    ~(~p.is_online \/ ~p.has_gpu) /\ HasModel(p, model_name)

Candidates(ps, model_name) ==
    LET keep(p) == Eligible(p, model_name)
    IN SelectSeq(ps, keep)

\* the head of the sorted candidates, None when there is none
Best(candidates) ==
    IF candidates = <<>> THEN None ELSE Some(Sort(candidates)[1])

_select_peer_for_model(ps, model_name) ==
    Best(Candidates(ps, model_name))

\* Assign that records nothing
AssignLost(job, peer) == job

\* create_job's `if peer:` branch
Assign(job, peer) ==
    IF ~IsNone(peer)
    THEN [job EXCEPT !.assigned_peer_id = Some(peer[1].id), !.status = ASSIGNED]
    ELSE job

\* Registry.create_job: the job it stores
NewJob(job_id, data, ps, t) ==
    Assign(Job(job_id, data, t), _select_peer_for_model(ps, data.model_name))

\* create_job that books the peer it assigns: the peer's load goes to LoadMax
create_job_reserving(data) ==
    /\ Serve
    /\ Len(jobs) < MaxJobs
    /\ IF data.requester_peer_id \notin Keys(peers)
       THEN /\ last' = Reply("create_job", 0, <<data>>, 400, <<>>)
            /\ UNCHANGED <<jobs, uuid, peers>>
       ELSE LET job_id == uuid + 1
                job == NewJob(job_id, data, peers, now)
            IN /\ uuid' = job_id
               /\ jobs' = Put(jobs, job_id, job)
               /\ peers' = [i \in 1..Len(peers) |->
                              IF job.assigned_peer_id = Some(peers[i].id)
                              THEN [peers[i] EXCEPT !.current_load_percent = LoadMax]
                              ELSE peers[i]]
               /\ last' = Reply("create_job", job_id, <<data>>, 200,
                                <<JobResponse(job)>>)
    /\ UNCHANGED <<now, threads>>

\* create_job without the test of the requester
create_job_unchecked(data) ==
    /\ Serve
    /\ Len(jobs) < MaxJobs
    /\ LET job_id == uuid + 1
           job == NewJob(job_id, data, peers, now)
       IN /\ uuid' = job_id
          /\ jobs' = Put(jobs, job_id, job)
          /\ last' = Reply("create_job", job_id, <<data>>, 200,
                           <<JobResponse(job)>>)
    /\ UNCHANGED <<peers, now, threads>>

\* POST /jobs
create_job(data) ==
    /\ Serve
    /\ Len(jobs) < MaxJobs
    /\ IF data.requester_peer_id \notin Keys(peers)
       THEN /\ last' = Reply("create_job", 0, <<data>>, 400, <<>>)
            /\ UNCHANGED <<jobs, uuid>>
       ELSE LET job_id == uuid + 1
                job == NewJob(job_id, data, peers, now)
            IN /\ uuid' = job_id
               /\ jobs' = Put(jobs, job_id, job)
               /\ last' = Reply("create_job", job_id, <<data>>, 200,
                                <<JobResponse(job)>>)
    /\ UNCHANGED <<peers, now, threads>>

\* GET /jobs
list_jobs ==
    /\ Serve
    /\ last' = Reply("list_jobs", 0, <<>>, 200,
                     [i \in 1..Len(jobs) |-> JobResponse(jobs[i])])
    /\ UNCHANGED <<peers, jobs, uuid, now, threads>>

\* get_job that answers an unknown id with an empty 200
get_job_no_404(job_id) ==
    /\ Serve
    /\ IF job_id \notin Keys(jobs)
       THEN last' = Reply("get_job", job_id, <<>>, 200, <<>>)
       ELSE last' = Reply("get_job", job_id, <<>>, 200,
                          <<JobResponse(Get(jobs, job_id))>>)
    /\ UNCHANGED <<peers, jobs, uuid, now, threads>>

\* GET /jobs/{job_id}
get_job(job_id) ==
    /\ Serve
    /\ IF job_id \notin Keys(jobs)
       THEN last' = Reply("get_job", job_id, <<>>, 404, <<>>)
       ELSE last' = Reply("get_job", job_id, <<>>, 200,
                          <<JobResponse(Get(jobs, job_id))>>)
    /\ UNCHANGED <<peers, jobs, uuid, now, threads>>

\* Updated that keeps a populated result or error when none is passed
UpdatedMerge(job, data, t) ==
    [job EXCEPT !.status = data.status,
                !.result_url = IF IsNone(data.result_url)
                               THEN job.result_url ELSE data.result_url,
                !.error_message = IF IsNone(data.error_message)
                                  THEN job.error_message ELSE data.error_message,
                !.updated_at = t]

\* Updated that gives up the assignment of a job reported back as QUEUED
UpdatedRequeue(job, data, t) ==
    [job EXCEPT !.status = data.status,
                !.result_url = data.result_url,
                !.error_message = data.error_message,
                !.assigned_peer_id = IF data.status = QUEUED
                                     THEN None ELSE job.assigned_peer_id,
                !.updated_at = t]

\* Registry.update_job_status, once the job is found: the job it leaves
Updated(job, data, t) ==
    [job EXCEPT !.status = data.status,
                !.result_url = data.result_url,
                !.error_message = data.error_message,
                !.updated_at = t]

\* POST /jobs/{job_id}/status
update_job_status(job_id, data) ==
    /\ Serve
    /\ IF job_id \notin Keys(jobs)
       THEN /\ last' = Reply("update_job_status", job_id, <<data>>, 404, <<>>)
            /\ UNCHANGED jobs
       ELSE LET job == Updated(Get(jobs, job_id), data, now)
            IN /\ jobs' = Put(jobs, job_id, job)
               /\ last' = Reply("update_job_status", job_id, <<data>>, 200,
                                <<JobResponse(job)>>)
    /\ UNCHANGED <<peers, uuid, now, threads>>

\* the worker's poll, GET /workers/{peer_id}/next-job: the app declares no such
\* route, so the router answers 404 and the worker takes it for "no job"
poll_jobs(peer_id) ==
    /\ Serve
    /\ last' = Reply("poll_jobs", peer_id, <<>>, 404, <<>>)
    /\ UNCHANGED <<peers, jobs, uuid, now, threads>>

\* the passage of time
Tick(d) ==
    /\ now + d <= MaxTime
    /\ now' = now + d
    /\ UNCHANGED <<peers, jobs, uuid, served, last, threads>>

\* the identifiers a request may name: those of the records, and 0, never issued
PeerIds == Keys(peers) \cup {0}
JobIds == Keys(jobs) \cup {0}

JobCreateRequest ==
    [requester_peer_id : PeerIds, model_name : ModelNames,
     payload_url : {Some("http://requester-peer:8001/uploads/img123.png")}]

Next ==
    \/ \E data \in PeerRegisterRequest : register_peer(data)
    \/ \E peer_id \in PeerIds, data \in HeartbeatPayload : heartbeat(peer_id, data)
    \/ \E only_online \in BOOLEAN : list_peers(only_online)
    \/ \E data \in JobCreateRequest : create_job(data)
    \/ list_jobs
    \/ \E job_id \in JobIds : get_job(job_id)
    \/ \E job_id \in JobIds, data \in JobUpdateStatusRequest : update_job_status(job_id, data)
    \/ \E peer_id \in Keys(peers) : poll_jobs(peer_id)
    \/ \E d \in {LivenessTimeout, LivenessTimeout + 1} : Tick(d)

Spec == Init /\ [][Next]_vars

\* ------------------------------------------------------------ the handlers, step by step
\* A request is taken by the first idle worker.
Free(w) ==
    /\ served < MaxThreadRequests
    /\ threads[w].pc = "idle"
    /\ \A v \in Workers : v < w => threads[v].pc # "idle"
At(w, op, pc) == threads[w].op = op /\ threads[w].pc = pc
Goto(w, th) == threads' = [threads EXCEPT ![w] = th]
\* the reply of worker w, which becomes idle
Answer(w, code, body) ==
    /\ last' = Reply(threads[w].op, threads[w].key, threads[w].req, code, body)
    /\ threads' = [threads EXCEPT ![w] = Idle]
\* next() of an iterator over a dict that has changed size raises RuntimeError
ChangedSize(d, w) == Len(d) # threads[w].n
IndexOf(d, k) == CHOOSE i \in 1..Len(d) : d[i].id = k

\* POST /jobs: the requester test, uuid4(), Job(...), iter(self.peers.values())
t_create_job_begin(w, data) ==
    /\ Free(w)
    /\ Serve
    /\ Len(jobs) + Cardinality({v \in Workers : threads[v].op = "create_job"}) < MaxJobs
    /\ IF data.requester_peer_id \notin Keys(peers)
       THEN /\ last' = Reply("create_job", 0, <<data>>, 400, <<>>)
            /\ UNCHANGED <<uuid, threads>>
       ELSE /\ uuid' = uuid + 1
            /\ Goto(w, [Idle EXCEPT !.pc = "next", !.op = "create_job",
                                    !.key = uuid + 1, !.req = <<data>>, !.t = now,
                                    !.i = 1, !.n = Len(peers),
                                    !.job = <<Job(uuid + 1, data, now)>>])
            /\ UNCHANGED last
    /\ UNCHANGED <<peers, jobs, now>>

\* _select_peer_for_model: one turn of the loop; after the last one the sort
\* of the candidates (live records) and the assignment to the local job
t_create_job_next(w) ==
    /\ At(w, "create_job", "next")
    /\ LET th == threads[w]
           model_name == th.req[1].model_name
       IN IF ChangedSize(peers, w)
          THEN Answer(w, 500, <<>>)
          ELSE /\ UNCHANGED last
               /\ IF th.i <= th.n
                  THEN Goto(w, [th EXCEPT
                           !.acc = IF Eligible(peers[th.i], model_name)
                                   THEN Append(th.acc, peers[th.i].id) ELSE th.acc,
                           !.i = th.i + 1])
                  ELSE LET candidates == [k \in 1..Len(th.acc) |-> Get(peers, th.acc[k])]
                           peer == Best(candidates)
                       IN Goto(w, [th EXCEPT
                             !.peer = IF IsNone(peer) THEN None ELSE Some(peer[1].id),
                             !.job = <<Assign(th.job[1], peer)>>,
                             !.pc = "store"])
    /\ UNCHANGED <<peers, jobs, uuid, now, served>>

\* self.jobs[job_id] = job
t_create_job_store(w) ==
    /\ At(w, "create_job", "store")
    /\ jobs' = Put(jobs, threads[w].key, threads[w].job[1])
    /\ Goto(w, [threads[w] EXCEPT !.pc = "respond"])
    /\ UNCHANGED <<peers, uuid, now, served, last>>

\* job.to_response()
t_create_job_respond(w) ==
    /\ At(w, "create_job", "respond")
    /\ Answer(w, 200, <<JobResponse(Get(jobs, threads[w].key))>>)
    /\ UNCHANGED <<peers, jobs, uuid, now, served>>

\* GET /peers: now, iter(self.peers.values())
t_list_peers_begin(w, only_online) ==
    /\ Free(w)
    /\ Serve
    /\ Goto(w, [Idle EXCEPT !.pc = "next", !.op = "list_peers",
                            !.req = <<only_online>>, !.t = now,
                            !.i = 1, !.n = Len(peers)])
    /\ UNCHANGED <<peers, jobs, uuid, now, last>>

\* one turn of the marking loop: the read of last_heartbeat and the test
t_list_peers_next(w) ==
    /\ At(w, "list_peers", "next")
    /\ LET th == threads[w]
       IN IF ChangedSize(peers, w)
          THEN Answer(w, 500, <<>>)
          ELSE /\ UNCHANGED last
               /\ IF th.i > th.n
                  THEN Goto(w, [th EXCEPT !.pc = "collect"])
                  ELSE IF th.t - peers[th.i].last_heartbeat > LivenessTimeout
                  THEN Goto(w, [th EXCEPT !.pc = "mark"])
                  ELSE Goto(w, [th EXCEPT !.i = th.i + 1])
    /\ UNCHANGED <<peers, jobs, uuid, now, served>>

\* peer.is_online = False
t_list_peers_mark(w) ==
    /\ At(w, "list_peers", "mark")
    /\ peers' = [peers EXCEPT ![threads[w].i].is_online = FALSE]
    /\ Goto(w, [threads[w] EXCEPT !.pc = "next", !.i = threads[w].i + 1])
    /\ UNCHANGED <<jobs, uuid, now, served, last>>

\* the filter and the responses
t_list_peers_collect(w) ==
    /\ At(w, "list_peers", "collect")
    /\ Answer(w, 200, IF threads[w].req[1]
                      THEN Responses(SelectSeq(peers, OnlineOnly))
                      ELSE Responses(peers))
    /\ UNCHANGED <<peers, jobs, uuid, now, served>>

\* POST /peers/{peer_id}/heartbeat: the lookup and the two optional fields
t_heartbeat_begin(w, peer_id, data) ==
    /\ Free(w)
    /\ Serve
    /\ IF ~PeerHeartbeatRequestValid(data)
       THEN /\ last' = Reply("heartbeat", peer_id, <<data>>, 422, <<>>)
            /\ UNCHANGED <<peers, threads>>
       ELSE IF peer_id \notin Keys(peers)
       THEN /\ last' = Reply("heartbeat", peer_id, <<data>>, 404, <<>>)
            /\ UNCHANGED <<peers, threads>>
       ELSE LET peer == Get(peers, peer_id)
                written == Heartbeaten(peer, data, now)
            IN /\ peers' = Put(peers, peer_id,
                               [peer EXCEPT
                                  !.gpu_memory_free_mb = written.gpu_memory_free_mb,
                                  !.current_load_percent = written.current_load_percent])
               /\ Goto(w, [Idle EXCEPT !.pc = "stamp", !.op = "heartbeat",
                                       !.key = peer_id, !.req = <<data>>])
               /\ UNCHANGED last
    /\ UNCHANGED <<jobs, uuid, now>>

\* peer.last_heartbeat = datetime.now(timezone.utc)
t_heartbeat_stamp(w) ==
    /\ At(w, "heartbeat", "stamp")
    /\ peers' = [peers EXCEPT ![IndexOf(peers, threads[w].key)].last_heartbeat = now]
    /\ Goto(w, [threads[w] EXCEPT !.pc = "revive"])
    /\ UNCHANGED <<jobs, uuid, now, served, last>>

\* peer.is_online = True, and the response
t_heartbeat_revive(w) ==
    /\ At(w, "heartbeat", "revive")
    /\ peers' = [peers EXCEPT ![IndexOf(peers, threads[w].key)].is_online = TRUE]
    /\ Answer(w, 200, <<PeerResponse(Get(peers', threads[w].key))>>)
    /\ UNCHANGED <<jobs, uuid, now, served>>

\* POST /jobs/{job_id}/status: the lookup and job.status = data.status
t_update_job_status_begin(w, job_id, data) ==
    /\ Free(w)
    /\ Serve
    /\ IF job_id \notin Keys(jobs)
       THEN /\ last' = Reply("update_job_status", job_id, <<data>>, 404, <<>>)
            /\ UNCHANGED <<jobs, threads>>
       ELSE /\ jobs' = [jobs EXCEPT ![IndexOf(jobs, job_id)].status = data.status]
            /\ Goto(w, [Idle EXCEPT !.pc = "rest", !.op = "update_job_status",
                                    !.key = job_id, !.req = <<data>>])
            /\ UNCHANGED last
    /\ UNCHANGED <<peers, uuid, now>>

\* result_url, error_message, updated_at, and the response
t_update_job_status_rest(w) ==
    /\ At(w, "update_job_status", "rest")
    /\ LET data == threads[w].req[1]
           k == IndexOf(jobs, threads[w].key)
       IN jobs' = [jobs EXCEPT ![k].result_url = data.result_url,
                               ![k].error_message = data.error_message,
                               ![k].updated_at = now]
    /\ Answer(w, 200, <<JobResponse(Get(jobs', threads[w].key))>>)
    /\ UNCHANGED <<peers, uuid, now, served>>

\* a handler that touches the registry in one step runs whole, on an idle worker
Whole(A) == (\E w \in Workers : Free(w)) /\ A

\* the payloads the requests served by the threads are drawn from
ThreadRegisterRequest ==
    { Registration(TRUE, Some(4096), <<ModelInfo("resnet50")>>),
      Registration(FALSE, Some(6000), <<ModelInfo("resnet50")>>) }
ThreadHeartbeatPayload ==
    { PeerHeartbeatRequest(None, None),
      PeerHeartbeatRequest(Some(6000), Some(10)) }
ThreadStatusRequest ==
    { [status |-> RUNNING, result_url |-> None, error_message |-> None],
      [status |-> QUEUED, result_url |-> None, error_message |-> None],
      [status |-> COMPLETED, result_url |-> Some("ok"), error_message |-> None] }

NextThreads ==
    \/ \E data \in ThreadRegisterRequest : Whole(register_peer(data))
    \/ \E w \in Workers, peer_id \in PeerIds, data \in ThreadHeartbeatPayload :
          t_heartbeat_begin(w, peer_id, data)
    \/ \E w \in Workers : t_heartbeat_stamp(w)
    \/ \E w \in Workers : t_heartbeat_revive(w)
    \/ \E w \in Workers, only_online \in BOOLEAN : t_list_peers_begin(w, only_online)
    \/ \E w \in Workers : t_list_peers_next(w)
    \/ \E w \in Workers : t_list_peers_mark(w)
    \/ \E w \in Workers : t_list_peers_collect(w)
    \/ \E w \in Workers, data \in JobCreateRequest : t_create_job_begin(w, data)
    \/ \E w \in Workers : t_create_job_next(w)
    \/ \E w \in Workers : t_create_job_store(w)
    \/ \E w \in Workers : t_create_job_respond(w)
    \/ Whole(list_jobs)
    \/ \E job_id \in JobIds : Whole(get_job(job_id))
    \/ \E w \in Workers, job_id \in JobIds, data \in ThreadStatusRequest :
          t_update_job_status_begin(w, job_id, data)
    \/ \E w \in Workers : t_update_job_status_rest(w)
    \/ \E d \in {LivenessTimeout, LivenessTimeout + 1} : Tick(d)

SpecThreads == Init /\ [][NextThreads]_vars

\* ------------------------------------------------------------ properties
\* the step that serves a request of endpoint op
Step(op) == served' = served + 1 /\ last'.op = op

\* the last request served was a POST /jobs that stored a job
Created == last.op = "create_job" /\ last.code = 200
LastJob == Get(jobs, last.key)

Advertises(p, m) == \E i \in DOMAIN p.models : p.models[i].name = m
IsEligible(p, m) == p.is_online /\ p.has_gpu /\ Advertises(p, m)
EligibleAt(ps, m) == {i \in 1..Len(ps) : IsEligible(ps[i], m)}
KnownFree(p) ==
    IF p.gpu_memory_free_mb = None THEN 0 ELSE p.gpu_memory_free_mb[1]
\* peer p ranks no worse than peer q: more free memory, or as much and no more load
NoWorse(p, q) ==
    \/ KnownFree(p) > KnownFree(q)
    \/ /\ KnownFree(p) = KnownFree(q)
       /\ p.current_load_percent <= q.current_load_percent
InBody(id, body) == \E i \in DOMAIN body : body[i].id = id

\* C1: when some peer is eligible for the model of a job just created (the
\* peers are those the selection saw: create_job leaves them alone), the job
\* is stored ASSIGNED to an eligible peer with the greatest free memory
\* (unknown as 0) and, among those, the lowest load; the reply says the same.
C1_AssignsBestEligible ==
    Created =>
        LET job == LastJob
            E == EligibleAt(peers, job.model_name)
        IN E # {} =>
            /\ job.status = ASSIGNED
            /\ \E i \in E :
                /\ job.assigned_peer_id = Some(peers[i].id)
                /\ \A k \in E : KnownFree(peers[k]) <= KnownFree(peers[i])
                /\ \A k \in E :
                     KnownFree(peers[k]) = KnownFree(peers[i]) =>
                        peers[i].current_load_percent <= peers[k].current_load_percent
            /\ last.body = <<JobResponse(job)>>

\* a later peer won the job on the load, tied on free memory with an earlier one
C1_Witness ==
    /\ Created
    /\ \E i, k \in EligibleAt(peers, LastJob.model_name) :
        /\ i < k
        /\ KnownFree(peers[i]) = KnownFree(peers[k])
        /\ peers[k].current_load_percent < peers[i].current_load_percent
        /\ LastJob.assigned_peer_id = Some(peers[k].id)

\* C2: when no peer is eligible for the model of a job just created, the job
\* is stored QUEUED with no assigned peer, and the reply says the same.
C2_NoEligibleStaysQueued ==
    Created =>
        LET job == LastJob
        IN EligibleAt(peers, job.model_name) = {} =>
            /\ job.status = QUEUED
            /\ job.assigned_peer_id = None
            /\ last.body[1].status = QUEUED
            /\ last.body[1].assigned_peer_id = None

\* a job stayed QUEUED although an online peer without GPU advertises its model
C2_Witness ==
    /\ Created
    /\ EligibleAt(peers, LastJob.model_name) = {}
    /\ \E i \in 1..Len(peers) :
         peers[i].is_online /\ Advertises(peers[i], LastJob.model_name)
    /\ LastJob.status = QUEUED
    /\ LastJob.assigned_peer_id = None

\* C3: a job just created is bound only to a peer heard from within the
\* liveness timeout before the selection (created_at is the time of the selection).
C3_AssignedPeerHeardFrom ==
    (Created /\ LastJob.assigned_peer_id # None) =>
        LastJob.created_at - Get(peers, LastJob.assigned_peer_id[1]).last_heartbeat
            <= LivenessTimeout

\* C4: a QUEUED job has no assigned peer, an ASSIGNED or RUNNING job has one.
C4_StatusMatchesAssignment ==
    \A i \in 1..Len(jobs) :
        /\ jobs[i].status = QUEUED => jobs[i].assigned_peer_id = None
        /\ jobs[i].status \in {ASSIGNED, RUNNING} => jobs[i].assigned_peer_id # None

\* C5: once a job is COMPLETED or FAILED no step changes its status.
C5_TerminalIsFinal ==
    [][\A i \in 1..Len(jobs) :
          jobs[i].status \in {COMPLETED, FAILED} => jobs'[i].status = jobs[i].status]_vars

\* C6: a GET /peers leaves out of the online-only list, and keeps in the full
\* list, every peer whose last heartbeat is more than 30 seconds old; a peer
\* heard from within 30 seconds and flagged online is in both.
C6_ListPeersByLiveness ==
    [][Step("list_peers") =>
        \A i \in 1..Len(peers) :
            LET p == peers[i]
                only_online == last'.req[1]
            IN /\ now - p.last_heartbeat > LivenessTimeout =>
                    IF only_online THEN ~InBody(p.id, last'.body)
                                   ELSE InBody(p.id, last'.body)
               /\ (now - p.last_heartbeat <= LivenessTimeout /\ p.is_online) =>
                    InBody(p.id, last'.body)]_vars

\* the online-only list left out a silent peer and kept one heard from exactly
\* 30 seconds before
C6_Witness ==
    /\ last.op = "list_peers"
    /\ last.req = <<TRUE>>
    /\ \E i, k \in 1..Len(peers) :
        /\ now - peers[i].last_heartbeat > LivenessTimeout
        /\ ~InBody(peers[i].id, last.body)
        /\ now - peers[k].last_heartbeat <= LivenessTimeout
        /\ InBody(peers[k].id, last.body)

\* C7: a heartbeat answered 200 leaves the peer online with last_heartbeat the
\* current time; the next request, if a POST /jobs for a model the peer
\* advertises with a GPU, assigns the job to a peer ranked no worse than it, and
\* if an online-only GET /peers within the timeout, lists it.
C7_HeartbeatRevives ==
    [][/\ (Step("heartbeat") /\ last'.code = 200) =>
            /\ Get(peers', last'.key).is_online
            /\ Get(peers', last'.key).last_heartbeat = now
       /\ (last.op = "heartbeat" /\ last.code = 200
             /\ Step("create_job") /\ last'.code = 200) =>
            LET p == Get(peers, last.key)
                job == Get(jobs', last'.key)
            IN (p.has_gpu /\ Advertises(p, job.model_name)) =>
                  /\ job.status = ASSIGNED
                  /\ job.assigned_peer_id # None
                  /\ NoWorse(Get(peers, job.assigned_peer_id[1]), p)
       /\ (last.op = "heartbeat" /\ last.code = 200
             /\ Step("list_peers") /\ last'.req = <<TRUE>>
             /\ now - Get(peers, last.key).last_heartbeat <= LivenessTimeout) =>
            InBody(last.key, last'.body)]_vars

\* a peer known at time 0 (it requested a job then) and silent since sent a
\* heartbeat later than the timeout, and the job created next was bound to it
C7_Witness ==
    /\ Created
    /\ Len(jobs) = 2
    /\ jobs[1].created_at = 0
    /\ jobs[2].created_at > LivenessTimeout
    /\ jobs[2].assigned_peer_id = Some(jobs[1].requester_peer_id)
    /\ Get(peers, jobs[1].requester_peer_id).last_heartbeat = jobs[2].created_at

\* C9: a well-formed heartbeat naming no peer, and a GET /jobs/{id} or a status
\* report naming no job, are answered 404 with an empty body and change no
\* peer record and no job record.
C9_UnknownIdIsNotFound ==
    [][(\/ /\ Step("heartbeat")
           /\ PeerHeartbeatRequestValid(last'.req[1])
           /\ last'.key \notin Keys(peers)
        \/ /\ Step("get_job")
           /\ last'.key \notin Keys(jobs)
        \/ /\ Step("update_job_status")
           /\ last'.key \notin Keys(jobs))
       => /\ last'.code = 404
          /\ last'.body = <<>>
          /\ peers' = peers
          /\ jobs' = jobs]_vars

\* a status report naming no job was answered 404 while peers and jobs exist
C9_Witness ==
    /\ last.op = "update_job_status"
    /\ last.key \notin Keys(jobs)
    /\ last.code = 404
    /\ peers # <<>>
    /\ jobs # <<>>

\* C10: a heartbeat answered 200 overwrites the free memory and the load of its
\* peer exactly when the field is present (a present 0 included), keeps the
\* peer's other attributes and its place in the directory, and changes no other
\* peer and no job; no heartbeat, whatever its answer, adds or removes a peer;
\* a second identical heartbeat right after the first changes last_heartbeat only.
C10_HeartbeatFrame ==
    [][Step("heartbeat") =>
        /\ jobs' = jobs
        /\ Len(peers') = Len(peers)
        /\ \A i \in 1..Len(peers) :
              (last'.code # 200 \/ peers[i].id # last'.key) => peers'[i] = peers[i]
        /\ last'.code = 200 =>
              \E i \in 1..Len(peers) :
                LET p == peers[i]
                    q == peers'[i]
                    data == last'.req[1]
                IN /\ p.id = last'.key
                   /\ q.gpu_memory_free_mb =
                        IF data.gpu_memory_free_mb # None
                        THEN data.gpu_memory_free_mb ELSE p.gpu_memory_free_mb
                   /\ q.current_load_percent =
                        IF data.current_load_percent # None
                        THEN data.current_load_percent[1] ELSE p.current_load_percent
                   /\ q.id = p.id /\ q.name = p.name /\ q.host = p.host
                   /\ q.port = p.port /\ q.has_gpu = p.has_gpu
                   /\ q.gpu_memory_total_mb = p.gpu_memory_total_mb
                   /\ q.models = p.models
                   /\ (last.op = "heartbeat" /\ last.code = 200
                         /\ last.key = last'.key /\ last.req = last'.req) =>
                        q = [p EXCEPT !.last_heartbeat = q.last_heartbeat]]_vars

\* a heartbeat carrying only free memory 0 was applied to a peer registered
\* with free memory, and left the load set by an earlier heartbeat
C10_Witness ==
    /\ last.op = "heartbeat"
    /\ last.code = 200
    /\ last.req = <<PeerHeartbeatRequest(Some(0), None)>>
    /\ Get(peers, last.key).gpu_memory_free_mb = Some(0)
    /\ Get(peers, last.key).current_load_percent = 10
    /\ Len(peers) = 2
    /\ \A i \in 1..Len(peers) :
          peers[i].id # last.key => peers[i].gpu_memory_free_mb = Some(4096)

\* C8: whenever the selection made for a job found a peer (the local `peer`
\* of the worker creating it), the job is in the store only with that peer's id
\* recorded, and it enters the store ASSIGNED, whatever the other workers do
\* meanwhile; and no step changes the assigned peer of a stored job.
C8_MatchRecordedWhenVisible ==
    [][/\ \A i \in 1..Len(jobs') : \A w \in Workers :
            (/\ threads[w].op = "create_job"
             /\ threads[w].key = jobs'[i].id
             /\ threads[w].peer # None)
            => /\ jobs'[i].assigned_peer_id = threads[w].peer
               /\ i > Len(jobs) => jobs'[i].status = ASSIGNED
       /\ \A i \in 1..Len(jobs) :
            jobs'[i].assigned_peer_id = jobs[i].assigned_peer_id]_vars

\* GET /jobs/{id} answered with a job whose creating worker, having found a
\* peer, has stored it and not yet replied
C8_Witness ==
    /\ last.op = "get_job"
    /\ last.code = 200
    /\ \E w \in Workers :
        /\ At(w, "create_job", "respond")
        /\ threads[w].key = last.key
        /\ threads[w].peer # None
        /\ last.body[1].assigned_peer_id = threads[w].peer

\* C11: a registration is answered with an identifier no peer record carries
\* yet, appends one record with that identifier, online and with load 0, and
\* leaves the existing records as they are, also when name, host and port
\* repeat; no other step adds or removes a record, so there are as many
\* records as registrations.
C11_RegisterAddsOneFreshPeer ==
    [][IF Step("register_peer")
       THEN /\ last'.code = 200
            /\ last'.key \notin Keys(peers)
            /\ last'.body[1].id = last'.key
            /\ Len(peers') = Len(peers) + 1
            /\ \A i \in 1..Len(peers) : peers'[i] = peers[i]
            /\ peers'[Len(peers')].id = last'.key
            /\ peers'[Len(peers')].is_online
            /\ peers'[Len(peers')].current_load_percent = 0
            /\ Cardinality(Keys(peers')) = Len(peers')
       ELSE Len(peers') = Len(peers)]_vars

\* a second registration with the name, host and port of the first got its own
\* record, and the first kept the load a heartbeat had given it
C11_Witness ==
    /\ last.op = "register_peer"
    /\ Len(peers) = 2
    /\ peers[1].id # peers[2].id
    /\ peers[2].id = last.key
    /\ peers[1].name = peers[2].name
    /\ peers[1].host = peers[2].host
    /\ peers[1].port = peers[2].port
    /\ peers[1].current_load_percent = 10

\* C12: the poll of a peer is answered with a job assigned to that peer and
\* still ASSIGNED when there is one, and with no job when there is none.
C12_NextAssignedJob ==
    last.op = "poll_jobs" =>
        LET mine == {i \in 1..Len(jobs) :
                        /\ jobs[i].assigned_peer_id = Some(last.key)
                        /\ jobs[i].status = ASSIGNED}
        IN IF mine # {}
           THEN /\ last.code = 200
                /\ \E i \in mine : last.body = <<JobResponse(jobs[i])>>
           ELSE last.body = <<>>

\* C13: a successful update_job_status sets the job's status, result_url and
\* error_message to exactly the passed values, a passed None clearing what was
\* there; it leaves the job's id, requester, assigned peer, model and payload,
\* every other job and every peer as they were; and a get_job of that job that
\* follows answers with the passed status and result.
C13_UpdateOverwritesExactly ==
    [][/\ (Step("update_job_status") /\ last'.code = 200) =>
            LET data == last'.req[1]
                old == Get(jobs, last'.key)
                new == Get(jobs', last'.key)
            IN /\ new.status = data.status
               /\ new.result_url = data.result_url
               /\ new.error_message = data.error_message
               /\ new.id = old.id
               /\ new.requester_peer_id = old.requester_peer_id
               /\ new.assigned_peer_id = old.assigned_peer_id
               /\ new.model_name = old.model_name
               /\ new.payload_url = old.payload_url
               /\ Len(jobs') = Len(jobs)
               /\ \A i \in 1..Len(jobs) :
                     jobs[i].id # last'.key => jobs'[i] = jobs[i]
               /\ peers' = peers
       /\ (/\ last.op = "update_job_status"
           /\ last.code = 200
           /\ Step("get_job")
           /\ last'.key = last.key) =>
            /\ last'.code = 200
            /\ last'.body[1].status = last.req[1].status
            /\ last'.body[1].result_url = last.req[1].result_url]_vars

\* a job reported COMPLETED with result "ok" some time after it was created
C13_Witness ==
    /\ last.op = "update_job_status"
    /\ last.code = 200
    /\ last.req[1].status = COMPLETED
    /\ last.req[1].result_url = Some("ok")
    /\ Get(jobs, last.key).status = COMPLETED
    /\ Get(jobs, last.key).result_url = Some("ok")
    /\ Get(jobs, last.key).error_message = None
    /\ Get(jobs, last.key).updated_at > Get(jobs, last.key).created_at

\* C14: a create_job whose requester_peer_id is not a registered peer is answered
\* 400 and stores no job; hence every stored job's requester_peer_id is the id of
\* a peer of the directory.
C14_UnknownRequesterRejected ==
    [][/\ (Step("create_job") /\ last'.req[1].requester_peer_id \notin Keys(peers)) =>
            /\ last'.code = 400
            /\ jobs' = jobs
            /\ peers' = peers
       /\ \A i \in 1..Len(jobs') : jobs'[i].requester_peer_id \in Keys(peers')]_vars

\* a request from an unknown requester refused while the directory holds a peer
\* and a job of a registered requester
C14_Witness ==
    /\ last.op = "create_job"
    /\ last.code = 400
    /\ last.req[1].requester_peer_id \notin Keys(peers)
    /\ peers # <<>>
    /\ jobs # <<>>

\* C15: a job is assigned once, when it is created: no later operation changes
\* the assigned_peer_id of a stored job, so a job stored QUEUED with no peer
\* stays without one, whatever registers or revives afterwards.
C15_AssignedOnce ==
    [][/\ Len(jobs') >= Len(jobs)
       /\ \A i \in 1..Len(jobs) :
             /\ jobs'[i].id = jobs[i].id
             /\ jobs'[i].assigned_peer_id = jobs[i].assigned_peer_id]_vars

\* a heartbeat has just been served, later than the timeout, for a peer that is
\* eligible for a job stored QUEUED with no peer before that heartbeat, and the
\* job is still QUEUED with no peer
C15_Witness ==
    /\ last.op = "heartbeat"
    /\ last.code = 200
    /\ \E i \in 1..Len(jobs) :
          /\ jobs[i].status = QUEUED
          /\ jobs[i].assigned_peer_id = None
          /\ Eligible(Get(peers, last.key), jobs[i].model_name)
          /\ jobs[i].created_at <= Get(peers, last.key).last_heartbeat
          /\ Get(peers, last.key).last_heartbeat > LivenessTimeout

\* C16: create_job leaves every peer and every job stored before it as they were,
\* and books nothing: a create_job that follows a create_job for the same model,
\* with no other request in between, is given the same peer.
C16_CreateJobReadsPeersOnly ==
    [][Step("create_job") =>
          /\ peers' = peers
          /\ \A i \in 1..Len(jobs) : jobs'[i] = jobs[i]
          /\ (/\ Created
              /\ last'.code = 200
              /\ last'.req[1].model_name = last.req[1].model_name) =>
                Get(jobs', last'.key).assigned_peer_id = LastJob.assigned_peer_id]_vars

\* two jobs for one model, created one after the other, both assigned to the same
\* peer although a second peer is eligible for the model
C16_Witness ==
    /\ Created
    /\ Len(jobs) = 2
    /\ jobs[2].id = last.key
    /\ jobs[2].id = jobs[1].id + 1
    /\ jobs[1].model_name = jobs[2].model_name
    /\ jobs[1].status = ASSIGNED
    /\ jobs[2].assigned_peer_id = jobs[1].assigned_peer_id
    /\ \E i, j \in 1..Len(peers) :
          /\ i # j
          /\ Eligible(peers[i], jobs[2].model_name)
          /\ Eligible(peers[j], jobs[2].model_name)
          /\ jobs[2].assigned_peer_id = Some(peers[i].id)

\* C17: the load of every peer is within [LoadMin, LoadMax]: it is 0 when the peer
\* registers, and a heartbeat that carries a load outside the range is refused
\* with 422 and changes no peer.
C17_LoadWithinRange ==
    [][/\ \A i \in 1..Len(peers') :
             /\ peers'[i].current_load_percent >= LoadMin
             /\ peers'[i].current_load_percent <= LoadMax
       /\ Step("register_peer") => Get(peers', last'.key).current_load_percent = 0
       /\ (/\ Step("heartbeat")
           /\ ~IsNone(last'.req[1].current_load_percent)
           /\ \/ last'.req[1].current_load_percent[1] < LoadMin
              \/ last'.req[1].current_load_percent[1] > LoadMax) =>
            /\ last'.code = 422
            /\ peers' = peers]_vars

\* a heartbeat with a load above the range refused for a peer whose load an
\* earlier heartbeat had set
C17_Witness ==
    /\ last.op = "heartbeat"
    /\ last.code = 422
    /\ last.key \in Keys(peers)
    /\ last.req[1].current_load_percent = Some(101)
    /\ Get(peers, last.key).current_load_percent = 10

\* C18: with the requests handled on concurrent threads, a peer whose is_online
\* flag is false, and for which no heartbeat is still being handled, has had no
\* heartbeat within the last LivenessTimeout seconds: a list_peers in flight does
\* not mark a peer offline once a heartbeat of that peer has been answered.
C18_OfflineMeansSilent ==
    \A i \in 1..Len(peers) :
        (/\ ~peers[i].is_online
         /\ \A w \in Workers :
               ~(threads[w].op = "heartbeat" /\ threads[w].key = peers[i].id))
        => now - peers[i].last_heartbeat > LivenessTimeout

\* C19: when eligible peers tie on free memory (unknown as 0) and on load, the
\* job just created is assigned to the one that registered first, which is the
\* first of them in the directory: no eligible peer in front of the assigned one
\* has the same free memory and the same load.
C19_TieGoesToEarliest ==
    /\ \A i, k \in 1..Len(peers) : i < k => peers[i].id < peers[k].id
    /\ Created =>
          \A i \in EligibleAt(peers, LastJob.model_name) :
              LastJob.assigned_peer_id = Some(peers[i].id) =>
                  \A k \in EligibleAt(peers, LastJob.model_name) :
                      (/\ KnownFree(peers[k]) = KnownFree(peers[i])
                       /\ peers[k].current_load_percent = peers[i].current_load_percent)
                      => i <= k

\* two eligible peers tied on free memory and on load, one of them holding its
\* free memory as unknown and the other as 0, and the job went to the first
C19_Witness ==
    /\ Created
    /\ Len(peers) = 2
    /\ EligibleAt(peers, LastJob.model_name) = {1, 2}
    /\ peers[1].gpu_memory_free_mb # peers[2].gpu_memory_free_mb
    /\ KnownFree(peers[1]) = KnownFree(peers[2])
    /\ peers[1].current_load_percent = peers[2].current_load_percent
    /\ LastJob.assigned_peer_id = Some(peers[1].id)

====
